---- MODULE Spec2Model ----
(***************************************************************************)
(* Model of src/chunk_type.rs: the ChunkType value (a validated 4-byte     *)
(* tag), its two validating constructors (TryFrom<[u8; 4]> and FromStr),   *)
(* its accessors and flag queries, Display and the derived equality.       *)
(*                                                                         *)
(* A byte (u8) is a number in 0..255.  A text (&str / String) is modelled  *)
(* as the sequence of its characters (Unicode scalar values); as_bytes is  *)
(* its UTF-8 encoding, which is what the code measures and scans.          *)
(* Positions are 1-based here: position k of the source is index k + 1.    *)
(***************************************************************************)
EXTENDS Integers, Sequences, FiniteSets

VARIABLES
    tags,    \* every ChunkType value returned so far, in order of construction
    origin,  \* origin[i]: the constructor that returned tags[i] ("bytes" / "text")
    call,    \* the most recent operation: [op, arg, res]
    input    \* the input under test of the single-input specification SpecFn

vars == <<tags, origin, call, input>>

\* ------------------------------------------------------------------ bounds

\* how many ChunkType values a run keeps
MaxTags == 2

\* longest text (in characters) given to from_str in SpecFn
MaxLen == 5

\* ------------------------------------------------------------- primitives

Byte == 0..255

\* u8::is_ascii_uppercase: b'A'..=b'Z'
is_ascii_uppercase(b) ==
    b >= 65 /\ b <= 90

\* u8::is_ascii_lowercase: b'a'..=b'z'
is_ascii_lowercase(b) ==
    b >= 97 /\ b <= 122

\* the UTF-8 encoding of one character (what str::as_bytes exposes)
utf8(c) ==
    IF c < 128 THEN <<c>>
    ELSE IF c < 2048 THEN <<192 + (c \div 64), 128 + (c % 64)>>
    ELSE IF c < 65536 THEN
        <<224 + (c \div 4096), 128 + ((c \div 64) % 64), 128 + (c % 64)>>
    ELSE
        <<240 + (c \div 262144), 128 + ((c \div 4096) % 64),
          128 + ((c \div 64) % 64), 128 + (c % 64)>>

RECURSIVE as_bytes(_)
\* s.as_bytes(): the UTF-8 bytes of the text s
as_bytes(s) ==
    IF s = <<>> THEN <<>> ELSE utf8(Head(s)) \o as_bytes(Tail(s))

\* s.len(): the length of a &str is its number of UTF-8 bytes
str_len(s) ==
    Len(as_bytes(s))

\* char::from(u8): the character whose code point is the byte's value
char_from(b) ==
    b

\* ----------------------------------------------------- results and errors

\* ChunkTypeDecodingError::BadByte(u8)
BadByte(b) ==
    [variant |-> "BadByte", val |-> b]

\* ChunkTypeDecodingError::BadLength(usize)
BadLength(n) ==
    [variant |-> "BadLength", val |-> n]

\* Result::Ok
Ok(t) ==
    [kind |-> "Ok", tag |-> t]

\* Result::Err
Err(e) ==
    [kind |-> "Err", err |-> e]

\* struct ChunkType { ct_bytes: [u8; 4] }
ChunkType(bs) ==
    [ct_bytes |-> bs]

\* -------------------------------------------------------- impl ChunkType

\* bytes() with the array handed out last byte first
bytes_reversed(t) ==
    [k \in 1..Len(t.ct_bytes) |-> t.ct_bytes[Len(t.ct_bytes) + 1 - k]]

\* ChunkType::bytes: the array is returned by value
bytes(t) ==
    t.ct_bytes

is_critical(t) ==
    is_ascii_uppercase(t.ct_bytes[1])

is_public(t) ==
    is_ascii_uppercase(t.ct_bytes[2])

is_reserved_bit_valid(t) ==
    is_ascii_uppercase(t.ct_bytes[3])

\* is_safe_to_copy testing for an uppercase byte like the other three flags
is_safe_to_copy_upper(t) ==
    is_ascii_uppercase(t.ct_bytes[4])

is_safe_to_copy(t) ==
    is_ascii_lowercase(t.ct_bytes[4])

\* is_valid as the conjunction of the four flags
is_valid_all_flags(t) ==
    /\ is_ascii_uppercase(t.ct_bytes[1])
    /\ is_ascii_uppercase(t.ct_bytes[2])
    /\ is_ascii_uppercase(t.ct_bytes[3])
    /\ is_ascii_lowercase(t.ct_bytes[4])

is_valid(t) ==
    is_reserved_bit_valid(t)

\* is_valid_byte as the single range b'A'..=b'z'
is_valid_byte_one_range(byte) ==
    byte >= 65 /\ byte <= 122

is_valid_byte(byte) ==
    is_ascii_uppercase(byte) \/ is_ascii_lowercase(byte)

\* ---------------------------------------------- TryFrom<[u8; 4]>::try_from

RECURSIVE try_from_scan_position(_, _)
\* try_from reporting where the bad byte is instead of what it is
try_from_scan_position(bs, i) ==
    IF i > Len(bs) THEN [kind |-> "Ok", tag |-> [ct_bytes |-> bs]]
    ELSE IF ~(is_ascii_uppercase(bs[i]) \/ is_ascii_lowercase(bs[i]))
         THEN [kind |-> "Err", err |-> [variant |-> "BadByte", val |-> i - 1]]
    ELSE try_from_scan_position(bs, i + 1)

RECURSIVE try_from_scan(_, _)
\* the for loop of try_from, from index i on
try_from_scan(bs, i) ==
    IF i > Len(bs) THEN Ok(ChunkType(bs))
    ELSE IF ~is_valid_byte(bs[i]) THEN Err(BadByte(bs[i]))
    ELSE try_from_scan(bs, i + 1)

try_from(bs) ==
    try_from_scan(bs, 1)

\* ------------------------------------------------------- FromStr::from_str

RECURSIVE from_str_loop_skip(_, _, _)
\* the loop of from_str skipping a bad byte instead of returning
from_str_loop_skip(bs, index, str_bytes) ==
    IF index > Len(bs) THEN [kind |-> "Ok", tag |-> [ct_bytes |-> str_bytes]]
    ELSE IF is_ascii_uppercase(bs[index]) \/ is_ascii_lowercase(bs[index])
         THEN from_str_loop_skip(bs, index + 1,
                                 [str_bytes EXCEPT ![index] = bs[index]])
         ELSE from_str_loop_skip(bs, index + 1, str_bytes)

RECURSIVE from_str_loop(_, _, _)
\* the for loop of from_str over s.as_bytes(), filling the scratch buffer
from_str_loop(bs, index, str_bytes) ==
    IF index > Len(bs) THEN Ok(ChunkType(str_bytes))
    ELSE IF is_valid_byte(bs[index])
         THEN from_str_loop(bs, index + 1, [str_bytes EXCEPT ![index] = bs[index]])
         ELSE Err(BadByte(bs[index]))

\* from_str scanning the bytes before it checks the length
from_str_scan_first(s) ==
    LET r == from_str_loop(as_bytes(s), 1, [k \in 1..str_len(s) |-> 0])
    IN  IF r.kind = "Err" THEN r
        ELSE IF str_len(s) # 4 THEN Err(BadLength(str_len(s)))
        ELSE r

\* from_str measuring the text in characters
from_str_char_count(s) ==
    IF Len(s) # 4 THEN Err(BadLength(Len(s)))
    ELSE from_str_loop(as_bytes(s), 1, <<0, 0, 0, 0>>)

from_str(s) ==
    IF str_len(s) # 4 THEN Err(BadLength(str_len(s)))
    ELSE from_str_loop(as_bytes(s), 1, <<0, 0, 0, 0>>)

\* ---------------------------------------------------- Display / to_string

\* Display::fmt writing a terminator after the four characters
to_string_terminated(t) ==
    Append([k \in 1..Len(t.ct_bytes) |-> char_from(t.ct_bytes[k])], 0)

\* Display::fmt: one character per byte, in order
to_string(t) ==
    [k \in 1..Len(bytes(t)) |-> char_from(bytes(t)[k])]

\* derived PartialEq: field by field, the array element by element
eq(a, b) ==
    a.ct_bytes = b.ct_bytes

\* ------------------------------------------------------------ operations

\* what a constructor call leaves behind: the call and, when it returned Ok
\* and the run still keeps values, the new value at the end of tags
Construct(op, arg, res, via) ==
    /\ call' = [op |-> op, arg |-> arg, res |-> res]
    /\ IF res.kind = "Ok" /\ Len(tags) < MaxTags
       THEN /\ tags' = Append(tags, res.tag)
            /\ origin' = Append(origin, via)
       ELSE UNCHANGED <<tags, origin>>
    /\ UNCHANGED input

\* ChunkType::try_from(b)
TryFrom(b) ==
    Construct("try_from", b, try_from(b), "bytes")

\* ChunkType::from_str(s)
FromStr(s) ==
    Construct("from_str", s, from_str(s), "text")

\* a read-only call on tags[i] (or on no value at all): only its result is new
Query(op, arg, res) ==
    /\ call' = [op |-> op, arg |-> arg, res |-> res]
    /\ UNCHANGED <<tags, origin, input>>

\* ChunkType::is_valid_byte(b)
IsValidByte(b) ==
    Query("is_valid_byte", <<b>>, is_valid_byte(b))

\* tags[i].bytes(): the caller receives the array
Bytes(i) ==
    Query("bytes", <<i>>, bytes(tags[i]))

\* bytes() handing out the value's own array: the caller's write lands in it
MutateArrAliased(k, v) ==
    /\ call.op \in {"bytes", "mutate"}
    /\ call' = [op |-> "mutate", arg |-> call.arg,
                res |-> [call.res EXCEPT ![k] = v]]
    /\ tags' = [tags EXCEPT ![call.arg[1]] =
                   [ct_bytes |-> [tags[call.arg[1]].ct_bytes EXCEPT ![k] = v]]]
    /\ UNCHANGED <<origin, input>>

\* the caller writes v at index k of the array bytes() gave it
MutateArr(k, v) ==
    /\ call.op \in {"bytes", "mutate"}
    /\ Query("mutate", call.arg, [call.res EXCEPT ![k] = v])

IsCritical(i) ==
    Query("is_critical", <<i>>, is_critical(tags[i]))

IsPublic(i) ==
    Query("is_public", <<i>>, is_public(tags[i]))

IsReservedBitValid(i) ==
    Query("is_reserved_bit_valid", <<i>>, is_reserved_bit_valid(tags[i]))

IsSafeToCopy(i) ==
    Query("is_safe_to_copy", <<i>>, is_safe_to_copy(tags[i]))

IsValid(i) ==
    Query("is_valid", <<i>>, is_valid(tags[i]))

\* tags[i].to_string()
ToString(i) ==
    Query("to_string", <<i>>, to_string(tags[i]))

\* tags[i] == tags[j]
Eq(i, j) ==
    Query("eq", <<i, j>>, eq(tags[i], tags[j]))

\* from_str applied to the text the previous to_string call produced
FromRendering ==
    /\ call.op = "to_string"
    /\ FromStr(call.res)

\* ----------------------------------------------------------------- inputs

\* the byte arrays and texts of the source's tests, and malformed neighbours
StoreByteArrays ==
    { <<82, 117, 83, 116>>,    \* RuSt
      <<114, 117, 83, 116>>,   \* ruSt
      <<82, 85, 83, 84>>,      \* RUST
      <<82, 117, 49, 116>>,    \* Ru1t
      <<0, 117, 83, 116>>,
      <<82, 117, 83, 200>> }

StoreTexts ==
    { <<82, 117, 83, 116>>,        \* "RuSt"
      <<114, 117, 83, 116>>,       \* "ruSt"
      <<82, 85, 83, 116>>,         \* "RUSt"
      <<82, 117, 115, 116>>,       \* "Rust"
      <<82, 117, 83, 84>>,         \* "RuST"
      <<82, 117, 49, 116>>,        \* "Ru1t"
      <<82, 117, 83>>,             \* "RuS"
      <<82, 117, 83, 116, 116>>,   \* "RuStt"
      <<>>,                        \* ""
      <<82, 233, 116>>,            \* "R\u{e9}t": 3 characters, 4 bytes
      <<82, 117, 83, 233>> }       \* "RuS\u{e9}": 4 characters, 5 bytes

StoreProbes ==
    {0, 49, 65, 97, 200}

\* what the caller may write into its copy of the array
ArrValues ==
    {0}

\* SpecFn: bytes around every edge of the alphabet, and characters of every
\* UTF-8 width
FnBytes ==
    {0, 49, 64, 65, 90, 91, 96, 97, 122, 123, 255}

FnByteArrays ==
    [1..4 -> FnBytes]

FnChars ==
    {65, 90, 97, 122, 49, 233, 8364, 128512}

FnTexts ==
    UNION {[1..n -> FnChars] : n \in 0..MaxLen}

NoCall ==
    [op |-> "none", arg |-> <<>>, res |-> <<>>]

\* --------------------------------------------------------- specifications

Init ==
    /\ tags = <<>>
    /\ origin = <<>>
    /\ call = NoCall
    /\ input = [kind |-> "none", val |-> <<>>]

\* reads of the values kept so far
Reads ==
    \/ \E i \in 1..Len(tags) : Bytes(i)
    \/ \E k \in 1..4, v \in ArrValues : MutateArr(k, v)
    \/ \E i \in 1..Len(tags) : IsCritical(i)
    \/ \E i \in 1..Len(tags) : IsPublic(i)
    \/ \E i \in 1..Len(tags) : IsReservedBitValid(i)
    \/ \E i \in 1..Len(tags) : IsSafeToCopy(i)
    \/ \E i \in 1..Len(tags) : IsValid(i)
    \/ \E i \in 1..Len(tags) : ToString(i)
    \/ \E i, j \in 1..Len(tags) : Eq(i, j)
    \/ FromRendering

\* any sequence of calls, on the inputs of the tests
Next ==
    \/ \E b \in StoreByteArrays : TryFrom(b)
    \/ \E s \in StoreTexts : FromStr(s)
    \/ \E b \in StoreProbes : IsValidByte(b)
    \/ Reads

Spec == Init /\ [][Next]_vars

\* one input, drawn from the wide sets, then the calls that apply to it
InitFn ==
    /\ tags = <<>>
    /\ origin = <<>>
    /\ call = NoCall
    /\ input \in [kind : {"bytes"}, val : FnByteArrays]
            \cup [kind : {"text"}, val : FnTexts]
            \cup [kind : {"byte"}, val : Byte]

NextFn ==
    \/ input.kind = "bytes" /\ call = NoCall /\ TryFrom(input.val)
    \/ input.kind = "text" /\ call = NoCall /\ FromStr(input.val)
    \/ input.kind = "byte" /\ IsValidByte(input.val)
    \/ Reads

SpecFn == InitFn /\ [][NextFn]_vars

\* ------------------------------------------------------------ properties

\* an ASCII letter, as the specification words it
Letter(b) ==
    (b >= 65 /\ b <= 90) \/ (b >= 97 /\ b <= 122)

Upper(b) ==
    b >= 65 /\ b <= 90

Lower(b) ==
    b >= 97 /\ b <= 122

\* a sequence of exactly four letters
FourLetters(bs) ==
    /\ DOMAIN bs = 1..4
    /\ \A k \in 1..4 : Letter(bs[k])

\* the number of bytes a character takes in UTF-8
Width(c) ==
    IF c < 128 THEN 1 ELSE IF c < 2048 THEN 2 ELSE IF c < 65536 THEN 3 ELSE 4

RECURSIVE Utf8Len(_)
Utf8Len(s) ==
    IF s = <<>> THEN 0 ELSE Width(Head(s)) + Utf8Len(Tail(s))

\* the lowest index of bs at which a non-letter stands
FirstBad(bs) ==
    CHOOSE k \in DOMAIN bs :
        /\ ~Letter(bs[k])
        /\ \A m \in 1..(k - 1) : Letter(bs[m])

HasBad(bs) ==
    \E k \in DOMAIN bs : ~Letter(bs[k])

Constructing ==
    call.op \in {"try_from", "from_str"}

\* C1: every ChunkType ever returned, kept or just handed back by the latest
\* constructor call, holds exactly 4 bytes, each an ASCII letter, and they
\* are the bytes of the input; a failed call carries an error and no value.
C1_TagsWellFormed ==
    /\ \A i \in 1..Len(tags) : FourLetters(tags[i].ct_bytes)
    /\ Constructing =>
          IF call.res.kind = "Ok"
          THEN /\ FourLetters(call.res.tag.ct_bytes)
               /\ call.res.tag.ct_bytes =
                     (IF call.op = "from_str" THEN as_bytes(call.arg) ELSE call.arg)
          ELSE /\ DOMAIN call.res = {"kind", "err"}
               /\ call.res.err.variant \in {"BadByte", "BadLength"}

\* a 4-byte text whose first byte is a letter and a later one is not was
\* rejected while values exist
C1_Witness ==
    /\ Len(tags) >= 1
    /\ call.op = "from_str"
    /\ call.res.kind = "Err"
    /\ call.res.err.variant = "BadByte"
    /\ Letter(call.arg[1])

\* C2 as claimed: a text whose number of characters is not 4 fails with
\* BadLength carrying its number of characters.
C2_LengthInCharacters ==
    (call.op = "from_str" /\ Len(call.arg) # 4)
        => call.res = Err(BadLength(Len(call.arg)))

\* C2, amended: a text whose UTF-8 encoding is not 4 bytes long fails with
\* BadLength carrying that number of bytes, whatever its characters are, and
\* never with BadByte.
C2_LengthInBytes ==
    (call.op = "from_str" /\ Utf8Len(call.arg) # 4)
        => call.res = Err(BadLength(Utf8Len(call.arg)))

\* a text of the wrong byte length that holds a non-letter was rejected
C2_Witness ==
    /\ call.op = "from_str"
    /\ Utf8Len(call.arg) # 4
    /\ HasBad(call.arg)
    /\ call.res.kind = "Err"
    /\ call.res.err.variant = "BadLength"

\* C3: try_from on an array holding a non-letter fails with BadByte carrying
\* the value of the lowest-position non-letter.
C3_FirstBadByte ==
    (call.op = "try_from" /\ HasBad(call.arg))
        => call.res = Err(BadByte(call.arg[FirstBad(call.arg)]))

\* an array with a letter first and two different non-letters after it
C3_Witness ==
    /\ call.op = "try_from"
    /\ Letter(call.arg[1])
    /\ ~Letter(call.arg[2])
    /\ ~Letter(call.arg[3])
    /\ call.arg[2] # call.arg[3]
    /\ call.res.kind = "Err"

\* C4 as claimed: a text of exactly 4 characters holding a character that is
\* no ASCII letter fails with BadByte carrying the first such character.
C4_FourCharacters ==
    (call.op = "from_str" /\ Len(call.arg) = 4 /\ HasBad(call.arg))
        => call.res = Err(BadByte(call.arg[FirstBad(call.arg)]))

\* C4, amended: a text whose UTF-8 encoding is exactly 4 bytes long (every
\* text of 4 ASCII characters is one) and holds a byte that is no ASCII
\* letter fails with BadByte carrying the first such byte; a text of 4
\* characters one of which is not ASCII is longer than 4 bytes and fails
\* with BadLength.
C4_FourBytes ==
    /\ (call.op = "from_str" /\ Utf8Len(call.arg) = 4 /\ HasBad(as_bytes(call.arg)))
          => call.res = Err(BadByte(as_bytes(call.arg)[FirstBad(as_bytes(call.arg))]))
    /\ (call.op = "from_str" /\ Len(call.arg) = 4 /\ HasBad(call.arg)
            /\ \A k \in 1..4 : call.arg[k] < 128)
          => call.res = Err(BadByte(call.arg[FirstBad(call.arg)]))
    /\ (call.op = "from_str" /\ Len(call.arg) = 4
            /\ \E k \in 1..4 : call.arg[k] >= 128)
          => (call.res.kind = "Err" /\ call.res.err.variant = "BadLength")

\* a 4-byte text with a letter first and a non-letter second was rejected
C4_Witness ==
    /\ call.op = "from_str"
    /\ Utf8Len(call.arg) = 4
    /\ Letter(as_bytes(call.arg)[1])
    /\ ~Letter(as_bytes(call.arg)[2])
    /\ call.res.kind = "Err"
    /\ call.res.err.variant = "BadByte"

\* C5: for a text s of exactly 4 ASCII letters, from_str(s) succeeds and
\* to_string of the value is s: the same 4 characters, in order, and
\* nothing else.
C5_TextRoundTrip ==
    (input.kind = "text" /\ FourLetters(input.val)) =>
        /\ (call.op = "from_str" /\ call.arg = input.val) => call.res.kind = "Ok"
        /\ call.op = "to_string" =>
              /\ Len(call.res) = 4
              /\ \A k \in 1..4 : call.res[k] = input.val[k]

\* a text of both cases was parsed and rendered
C5_Witness ==
    /\ input.kind = "text"
    /\ FourLetters(input.val)
    /\ Upper(input.val[1])
    /\ Lower(input.val[2])
    /\ call.op = "to_string"
    /\ call.res = input.val

\* two values agree position by position
SameBytes(a, b) ==
    \A k \in 1..4 : a.ct_bytes[k] = b.ct_bytes[k]

\* C6: try_from on four letters b succeeds and bytes() of the value is b;
\* from_str on the rendering of a value yields an equal value; and two
\* values, whichever constructor made each, are equal iff their bytes agree
\* position by position.
C6_BytesTextEquivalence ==
    /\ (call.op = "try_from" /\ FourLetters(call.arg)) =>
          /\ call.res.kind = "Ok"
          /\ bytes(call.res.tag) = call.arg
    /\ \A i \in 1..Len(tags) :
          /\ (call.op = "bytes" /\ call.arg = <<i>>) => call.res = tags[i].ct_bytes
          /\ (call.op = "from_str" /\ call.arg = to_string(tags[i])) =>
                /\ call.res.kind = "Ok"
                /\ eq(call.res.tag, tags[i])
                /\ SameBytes(call.res.tag, tags[i])
    /\ \A i, j \in 1..Len(tags) :
          /\ eq(tags[i], tags[j]) <=> SameBytes(tags[i], tags[j])
          /\ (call.op = "eq" /\ call.arg = <<i, j>>) =>
                (call.res <=> SameBytes(tags[i], tags[j]))

\* a value built from bytes and a value built from text compared equal
C6_Witness ==
    /\ call.op = "eq"
    /\ call.res = TRUE
    /\ origin[call.arg[1]] = "bytes"
    /\ origin[call.arg[2]] = "text"

\* the byte b in the other case
SwapCase(b) ==
    IF Upper(b) THEN b + 32 ELSE b - 32

\* the value t with the case of position k changed
WithCaseSwapped(t, k) ==
    [ct_bytes |-> [t.ct_bytes EXCEPT ![k] = SwapCase(t.ct_bytes[k])]]

\* the 16 values that differ from t in case only
CaseVariants(t) ==
    {[ct_bytes |-> [k \in 1..4 |->
          IF k \in S THEN SwapCase(t.ct_bytes[k]) ELSE t.ct_bytes[k]]] :
        S \in SUBSET (1..4)}

Flags(t) ==
    <<is_critical(t), is_public(t), is_reserved_bit_valid(t), is_safe_to_copy(t)>>

\* the values a state holds: those kept and the one just returned
Held ==
    {tags[i] : i \in 1..Len(tags)}
        \cup (IF Constructing /\ call.res.kind = "Ok" THEN {call.res.tag} ELSE {})

\* C7: is_critical, is_public and is_reserved_bit_valid are true iff byte 0,
\* 1, 2 is uppercase, is_safe_to_copy iff byte 3 is lowercase; changing the
\* case of another position changes no flag, and the 16 casings of a value
\* give 16 different flag combinations.
C7_FlagDerivation ==
    /\ \A t \in Held :
          /\ Flags(t) = <<Upper(t.ct_bytes[1]), Upper(t.ct_bytes[2]),
                          Upper(t.ct_bytes[3]), Lower(t.ct_bytes[4])>>
          /\ \A k \in 1..4 : \A m \in (1..4) \ {k} :
                Flags(WithCaseSwapped(t, m))[k] = Flags(t)[k]
          /\ Cardinality({Flags(v) : v \in CaseVariants(t)}) = 16
    /\ \A i \in 1..Len(tags) :
          /\ (call.op = "is_critical" /\ call.arg = <<i>>)
                => (call.res <=> Upper(tags[i].ct_bytes[1]))
          /\ (call.op = "is_public" /\ call.arg = <<i>>)
                => (call.res <=> Upper(tags[i].ct_bytes[2]))
          /\ (call.op = "is_reserved_bit_valid" /\ call.arg = <<i>>)
                => (call.res <=> Upper(tags[i].ct_bytes[3]))
          /\ (call.op = "is_safe_to_copy" /\ call.arg = <<i>>)
                => (call.res <=> Lower(tags[i].ct_bytes[4]))

\* is_safe_to_copy answered false on a value whose other flags are all false
C7_Witness ==
    /\ call.op = "is_safe_to_copy"
    /\ call.res = FALSE
    /\ Lower(tags[call.arg[1]].ct_bytes[1])
    /\ Lower(tags[call.arg[1]].ct_bytes[2])
    /\ Lower(tags[call.arg[1]].ct_bytes[3])
    /\ Upper(tags[call.arg[1]].ct_bytes[4])

\* C8: is_valid is is_reserved_bit_valid and nothing else: it is true iff
\* byte 2 is uppercase, whatever the case of bytes 0, 1 and 3; four letters
\* with a lowercase byte 2 are still constructed, and is_valid is false.
C8_IsValidIsReservedBit ==
    /\ \A t \in Held :
          /\ is_valid(t) <=> is_reserved_bit_valid(t)
          /\ is_valid(t) <=> Upper(t.ct_bytes[3])
          /\ \A m \in {1, 2, 4} : is_valid(WithCaseSwapped(t, m)) <=> is_valid(t)
    /\ \A i \in 1..Len(tags) :
          (call.op = "is_valid" /\ call.arg = <<i>>)
              => (call.res <=> Upper(tags[i].ct_bytes[3]))
    /\ (Constructing /\ input.kind \in {"bytes", "text"} /\ call.arg = input.val
            /\ FourLetters(input.val) /\ Lower(input.val[3]))
          => (call.res.kind = "Ok" /\ ~is_valid(call.res.tag))

\* is_valid answered false on a value shaped like "Rust"
C8_Witness ==
    /\ call.op = "is_valid"
    /\ call.res = FALSE
    /\ Upper(tags[call.arg[1]].ct_bytes[1])
    /\ Lower(tags[call.arg[1]].ct_bytes[2])
    /\ Lower(tags[call.arg[1]].ct_bytes[3])
    /\ Lower(tags[call.arg[1]].ct_bytes[4])

\* C9: no operation changes a value that exists: every step keeps every
\* value of tags as it is, also a write into the array bytes() returned.
C9_Immutable ==
    [][\A i \in 1..Len(tags) : Len(tags') >= i /\ tags'[i] = tags[i]]_vars

\* the caller's copy was written to and now differs from the value
C9_Witness ==
    /\ Len(tags) = MaxTags
    /\ call.op = "mutate"
    /\ call.res # tags[call.arg[1]].ct_bytes

\* C10: is_valid_byte(b) is true exactly for 65..90 and 97..122, and both
\* constructors accept an input exactly when all its bytes pass.
C10_Alphabet ==
    /\ call.op = "is_valid_byte" => (call.res <=> Letter(call.arg[1]))
    /\ call.op = "try_from" =>
          (call.res.kind = "Ok" <=> \A k \in 1..4 : Letter(call.arg[k]))
    /\ (call.op = "from_str" /\ Utf8Len(call.arg) = 4) =>
          (call.res.kind = "Ok" <=> \A k \in 1..4 : Letter(as_bytes(call.arg)[k]))

\* the byte just past 'Z' was probed and refused
C10_Witness ==
    /\ call.op = "is_valid_byte"
    /\ call.arg = <<91>>
    /\ call.res = FALSE

====
